---- MODULE Spec2Model ----
(***************************************************************************)
(* Collaborative building commands (evennia/contrib/collab/commands.py)    *)
(* over the ownership / quota / permission layer they import from          *)
(* evennia.contrib.collab.perms.  The perms module and collab_settings are *)
(* not part of the source tree; their operators are modelled from the      *)
(* design document and from the calls made in the commands and tests.      *)
(***************************************************************************)
EXTENDS Integers, FiniteSets, Sequences, TLC

(* ---------------------------------------------------------------- bounds *)

\* Database ids 1..MaxObjs are available to in-world objects; the fixtures
\* take the first three, the creation commands the rest.
MaxObjs == 4

(* ---------------------------------------------------------------- actors *)

\* CollabTest fixtures: player (an immortal) controls char1, player2 (a
\* normal builder) controls char2.
Players == {"player", "player2"}

Chars == {"char1", "char2"}

Actors == Players \cup Chars

\* The absent value (Python None) for actor-valued results.
NoActor == "none"

\* The absent value (Python None) for object-valued fields.
NoObj == 0

ObjIds == 1..MaxObjs

\* getattr(self.caller, 'player', self.caller): the account of a character,
\* the actor itself for an account.
PlayerOf(a) ==
    IF a = "char1" THEN "player" ELSE IF a = "char2" THEN "player2" ELSE a

\* The privilege predicate "is immortal"; a character is checked through its
\* controlling account.
IsImmortal(a) == PlayerOf(a) = "player"

\* Class discriminator written into an ownership tag.
ActorCls(a) == IF a \in Players THEN "player" ELSE "character"

\* CollabTest fixtures in the object table: room1, char1 and char2.
Room1 == 1

\* The home that objects get when none is given: the fixtures' room.
DefaultHome == Room1

\* A character is an in-world object; CharObj gives its database id.
CharObj(c) == IF c = "char1" THEN 2 ELSE 3

CharIds == {CharObj(c) : c \in Chars}

\* Numeric database id of an actor.  Accounts and objects live in different
\* tables, so the same number occurs once per table.
ActorId(a) == IF a \in Chars THEN CharObj(a) ELSE IF a = "player" THEN 1 ELSE 2

\* db_date_created: whole seconds and microseconds.
DateCreated(a) ==
    IF PlayerOf(a) = "player" THEN [sec |-> 45, usec |-> 83]
    ELSE [sec |-> 46, usec |-> 7]

(* --------------------------------------------------------- configuration *)

DefaultType == "object"

RoomType == "room"

ExitType == "exit"

TypeKeys == {DefaultType, RoomType, ExitType}

NoType == "none"

\* settings.COLLAB_TYPES[type]['quota'] as set by the command tests.
QuotaLimit == 1

\* float('inf')
inf == 1000000

\* collab_settings.COLLAB_TYPES: type key -> typeclass path, create lock,
\* quota.
COLLAB_TYPES(key) ==
    [typeclass |-> IF key = RoomType THEN "CollabRoom"
                   ELSE IF key = ExitType THEN "CollabExit"
                   ELSE "CollabObject",
     create_lock |-> "perm(Builders)",
     quota |-> QuotaLimit]

TypePaths == {COLLAB_TYPES(k).typeclass : k \in TypeKeys}

LockNames ==
    {"control", "link", "link_to", "create_in", "delete", "chown", "chown_to"}

\* Lock strings an object can carry, given as the set of lock names that
\* evaluate true for every accessor; the remaining names evaluate false.
LockChoices == {{}, {"link_to", "create_in"}, LockNames}

(* ----------------------------------------------------------------- state *)

VARIABLES
    objects,       \* ids of the objects that exist in the database
    nextid,        \* next id the database hands out
    typeclass,     \* typeclass path of each object
    tags,          \* tag store of each object: set of [category, key]
    destination,   \* destination field of each object
    home,          \* home field of each object
    location,      \* location field of each character
    locks,         \* lock names of each object that evaluate true
    last_created,  \* caller.db.last_created of each character
    permissions,   \* permission group of each account
    attrs,         \* attribute stores of each object: handler -> name -> value
    nicks,         \* object nicks of each character: nick -> replacement
    last           \* the last operation and what it reported to the caller

vars ==
    <<objects, nextid, typeclass, tags, destination, home, location, locks,
      last_created, permissions, attrs, nicks, last>>

\* What the commands on objects and owners leave alone: the permission
\* groups, the attribute stores and the nicks.
aside == <<permissions, attrs, nicks>>

\* Permission group of an account (player.permissions).
Permission(p) == permissions[p]

\* caller.locks.check_lockstring(caller, lockstring) for the create locks.
check_lockstring(caller, lockstring) ==
    /\ lockstring = "perm(Builders)"
    /\ Permission(PlayerOf(caller)) \in {"Builders", "Wizards", "Immortals"}

(* ------------------------------------------------------- ownership ledger *)

\* datetime.strftime("%Y-%m-%d %H:%M:%S"): second precision, written as two
\* digits; the microseconds are not written.
strftime(d) == <<d.sec \div 10, d.sec % 10>>

\* datetime.strptime(s, "%Y-%m-%d %H:%M:%S")
strptime(s) == [sec |-> 10 * s[1] + s[2], usec |-> 0]

\* What owner_tag_key reads off an actor: id, db_date_created and class.
ActorRecord(actor) ==
    [id |-> ActorId(actor), date |-> DateCreated(actor),
     cls |-> ActorCls(actor)]

\* An owner tag key that leaves the class discriminator at 'player'.
owner_tag_key_of_no_cls(rec) ==
    [id |-> rec.id, date |-> strftime(rec.date), cls |-> "player"]

\* The serialized {id, date, cls} record of an actor with these fields.
owner_tag_key_of(rec) ==
    [id |-> rec.id, date |-> strftime(rec.date), cls |-> rec.cls]

\* owner_tag_key(actor)
owner_tag_key(actor) == owner_tag_key_of(ActorRecord(actor))

\* parse_owner(key): the actor of that class with that id, created in that
\* second; the absent value when there is none.
parse_owner(key) ==
    LET found == {a \in Actors :
                     /\ ActorCls(a) = key.cls
                     /\ ActorId(a) = key.id
                     /\ [DateCreated(a) EXCEPT !.usec = 0] = strptime(key.date)}
    IN  IF found = {} THEN NoActor ELSE CHOOSE a \in found : TRUE

OwnerTags(obj, category) == {t \in tags[obj] : t.category = category}

\* get_owner(obj, player_check=False): the display owner, or the true owner
\* under player_check; the absent value when the object has no such tag.
get_owner(obj, player_check) ==
    LET found == OwnerTags(obj, IF player_check THEN "owner" ELSE "display_owner")
    IN  IF found = {} THEN NoActor
        ELSE parse_owner((CHOOSE t \in found : TRUE).key)

\* is_owner(actor, obj, check_character=False): raw ownership, no privilege
\* bypass.  Under check_character the actor's account is compared with the
\* true owner.
is_owner(actor, obj, check_character) ==
    IF check_character THEN get_owner(obj, TRUE) = PlayerOf(actor)
    ELSE get_owner(obj, FALSE) = actor

\* set_owner that adds the new display owner tag beside the old one.
set_owner_accumulate(owner, target) ==
    tags[target]
        \cup {[category |-> "display_owner", key |-> owner_tag_key(owner)]}
        \cup (IF OwnerTags(target, "owner") = {}
              THEN {[category |-> "owner",
                     key |-> owner_tag_key(PlayerOf(owner))]}
              ELSE {})

\* set_owner(owner, target): the tag store of target afterwards.  The display
\* owner tag is replaced; the true owner tag is written only when there is
\* none yet, and names the account.
set_owner(owner, target) ==
    LET kept == tags[target] \ OwnerTags(target, "display_owner")
        display == [category |-> "display_owner", key |-> owner_tag_key(owner)]
        true_owner == [category |-> "owner",
                       key |-> owner_tag_key(PlayerOf(owner))]
    IN  kept \cup {display}
             \cup (IF OwnerTags(target, "owner") = {} THEN {true_owner} ELSE {})

(* ----------------------------------------------------------- quota engine *)

\* quota_queryset(actor, type_path): live objects of the type whose display
\* owner is the actor.
quota_queryset(actor, type_path) ==
    {o \in objects : typeclass[o] = type_path /\ get_owner(o, FALSE) = actor}

\* get_limit_for that answers how many are left instead of the total.
get_limit_for_remaining(actor, type_key) ==
    COLLAB_TYPES(type_key).quota
        - Cardinality(quota_queryset(actor, COLLAB_TYPES(type_key).typeclass))

\* get_limit_for(actor, type_key): the configured quota.
get_limit_for(actor, type_key) == COLLAB_TYPES(type_key).quota

\* The lock that grants unlimited quota.
quota_bypass(actor) == IsImmortal(actor)

\* quota_check without the floor at zero.
quota_check_nofloor(actor, type_key) ==
    IF quota_bypass(actor) THEN inf
    ELSE get_limit_for(actor, type_key)
             - Cardinality(quota_queryset(actor,
                                          COLLAB_TYPES(type_key).typeclass))

\* quota_check(actor, type_key): how many more objects may be created.
quota_check(actor, type_key) ==
    LET limit == get_limit_for(actor, type_key)
        count == Cardinality(
                     quota_queryset(actor, COLLAB_TYPES(type_key).typeclass))
    IN  IF quota_bypass(actor) THEN inf
        ELSE IF limit - count > 0 THEN limit - count ELSE 0

(* --------------------------------------------------- permission evaluator *)

\* obj.access(actor, lock): the host's lock evaluator.  A character object
\* admits itself and its account; otherwise the object's lock string decides.
access(obj, actor, lock) ==
    \/ lock \in locks[obj]
    \/ obj \in CharIds /\ \E c \in Chars : CharObj(c) = obj /\ PlayerOf(c) = PlayerOf(actor)

DefaultLocks == <<"control">>

\* collab_check(actor, obj, locks): every named lock passes, or the actor is
\* the display owner or (through the account) the true owner, or the actor
\* is an immortal.
collab_check(actor, obj, locklist) ==
    LET names == IF locklist = <<>> THEN DefaultLocks ELSE locklist
    IN  \/ IsImmortal(actor)
        \/ is_owner(actor, obj, FALSE)
        \/ is_owner(actor, obj, TRUE)
        \/ \A i \in 1..Len(names) : access(obj, actor, names[i])

\* Attribute handler kinds: wizard-hidden, user-hidden, the default
\* user-facing and the public handler, and the raw/system store.
HandlerKinds == {"wizh", "usrh", "usr", "pub", ""}

AccessTypes == {"read", "write"}

\* The actor is the display owner or, through the account, the true owner.
controls(actor, obj) ==
    is_owner(actor, obj, FALSE) \/ is_owner(actor, obj, TRUE)

\* attr_check with the raw store closed to owners and the public handler
\* open for writing to everyone.
attr_check_open_pub(actor, obj, access_type, handler) ==
    \/ IsImmortal(actor)
    \/ handler = "usrh" /\ controls(actor, obj)
    \/ handler = "usr" /\ (access_type = "read" \/ controls(actor, obj))
    \/ handler = "pub"

\* attr_check(actor, obj, access_type, handler): the per-handler policy.
attr_check(actor, obj, access_type, handler) ==
    \/ IsImmortal(actor)
    \/ handler \in {"usrh", ""} /\ controls(actor, obj)
    \/ handler \in {"usr", "pub"}
           /\ (access_type = "read" \/ controls(actor, obj))

(* ------------------------------------------------------------------ init *)

\* CollabTest: player is an immortal, player2 a builder.
Permissions0 == [p \in Players |-> IF p = "player" THEN "Immortals"
                                   ELSE "Builders"]

\* Bare attribute names under which the attribute commands store values.
StoredNames == {<<"t">>}

\* The absent value (Python None) of an attribute.
NoValue == [kind |-> "none", items |-> <<>>]

\* The empty attribute stores of an object.
NoAttrs == [h \in HandlerKinds |-> [n \in StoredNames |-> NoValue]]

\* Nick strings given to @buildnick; the empty one is "no argument".
NickNames == {"", "tmproom"}

\* "#%s" % id: the dbref string of an object.
dbref(id) == <<"#", id>>

\* The replacement of a string that is no nick.
NoNick == <<>>

\* No nick: every string stands for itself.
NoNicks == [n \in NickNames |-> NoNick]

NoReport == [op |-> "init", caller |-> NoActor, obj |-> NoObj,
             arg |-> NoObj, ctype |-> NoType, res |-> "none", denied |-> FALSE]

Init ==
    /\ objects = {Room1} \cup CharIds
    /\ nextid = 4
    /\ typeclass = [o \in ObjIds |->
                       IF o = Room1 THEN "CollabRoom"
                       ELSE IF o \in CharIds THEN "Character" ELSE NoType]
    /\ tags = [o \in ObjIds |-> {}]
    /\ destination = [o \in ObjIds |-> NoObj]
    /\ home = [o \in ObjIds |-> IF o \in objects THEN DefaultHome ELSE NoObj]
    /\ location = [c \in Chars |-> Room1]
    /\ locks = [o \in ObjIds |-> {}]
    /\ last_created = [c \in Chars |-> NoObj]
    /\ permissions = Permissions0
    /\ attrs = [o \in ObjIds |-> NoAttrs]
    /\ nicks = [c \in Chars |-> NoNicks]
    /\ last = NoReport

(* ------------------------------------------------------ library operations *)

\* set_owner(actor, obj) called directly, as the tests do.
SetOwner(actor, obj) ==
    /\ obj \in objects
    /\ tags' = [tags EXCEPT ![obj] = set_owner(actor, obj)]
    /\ last' = [op |-> "set_owner", caller |-> actor, obj |-> obj,
                arg |-> NoObj, ctype |-> NoType, res |-> "ok", denied |-> FALSE]
    /\ UNCHANGED aside
    /\ UNCHANGED <<objects, nextid, typeclass, destination, home, location,
                   locks,
                   last_created>>

\* A delete that only clears the references and leaves the row in place.
delete_keeps_row(obj) ==
    /\ destination' = [o \in ObjIds |->
                          IF o = obj \/ destination[o] = obj THEN NoObj
                          ELSE destination[o]]
    /\ home' = [o \in ObjIds |->
                   IF o = obj \/ home[o] = obj THEN NoObj ELSE home[o]]
    /\ location' = [c \in Chars |->
                       IF location[c] = obj THEN NoObj ELSE location[c]]
    /\ last_created' = [c \in Chars |->
                           IF last_created[c] = obj THEN NoObj
                           ELSE last_created[c]]
    /\ UNCHANGED <<objects, typeclass, tags, locks, nextid, attrs>>

\* obj.delete(): the row and its tags go; references to it read as None.
delete(obj) ==
    /\ objects' = objects \ {obj}
    /\ typeclass' = [typeclass EXCEPT ![obj] = NoType]
    /\ tags' = [tags EXCEPT ![obj] = {}]
    /\ locks' = [locks EXCEPT ![obj] = {}]
    /\ attrs' = [attrs EXCEPT ![obj] = NoAttrs]
    /\ destination' = [o \in ObjIds |->
                          IF o = obj \/ destination[o] = obj THEN NoObj
                          ELSE destination[o]]
    /\ home' = [o \in ObjIds |->
                   IF o = obj \/ home[o] = obj THEN NoObj ELSE home[o]]
    /\ location' = [c \in Chars |->
                       IF location[c] = obj THEN NoObj ELSE location[c]]
    /\ last_created' = [c \in Chars |->
                           IF last_created[c] = obj THEN NoObj
                           ELSE last_created[c]]
    /\ UNCHANGED nextid

\* obj.delete() called directly, as the tests do.
Delete(obj) ==
    /\ obj \in objects
    /\ delete(obj)
    /\ UNCHANGED <<permissions, nicks>>
    /\ last' = [op |-> "delete", caller |-> NoActor, obj |-> obj,
                arg |-> NoObj, ctype |-> NoType, res |-> "ok", denied |-> FALSE]

(* ------------------------------------------------------ creation commands *)

CreationCmds == {"@create", "@dig", "@open"}

\* pre_load and the switch: @dig and @open put their type in front of the
\* switches, @create takes the first switch or the default type.
create_type(cmd, switch) ==
    IF cmd = "@dig" THEN RoomType
    ELSE IF cmd = "@open" THEN ExitType
    ELSE IF switch = NoType THEN DefaultType ELSE switch

not_permitted(cmd) == IF cmd = "@create" THEN {ExitType, RoomType} ELSE {}

\* get_location of the three commands, for a character caller.
get_location(cmd, caller) ==
    IF cmd = "@dig" THEN NoObj
    ELSE IF cmd = "@open" THEN location[caller]
    ELSE CharObj(caller)

\* perm_check raises PermissionsError: TRUE when it does.
perm_check(caller, dest, loc) ==
    \/ dest # NoObj /\ ~collab_check(caller, dest, <<"link_to">>)
    \/ loc # NoObj /\ ~collab_check(caller, loc, <<"create_in">>)

\* The account whose quota BaseCreationCommand.func checks.
quota_player(caller) == PlayerOf(caller)

\* post_creation that hands the object to the account, not the caller.
post_creation_player(caller, thing) == set_owner(PlayerOf(caller), thing)

\* post_creation(thing): the tag store of the new object.
post_creation(caller, thing) == set_owner(caller, thing)

\* func without the quota test.
creation_outcome_noquota(cmd, caller, switch, named, rhs) ==
    LET ctype == create_type(cmd, switch)
    IN  IF ctype \in not_permitted(cmd) THEN "not_permitted"
        ELSE IF ctype \notin TypeKeys THEN "key_error"
        ELSE IF ~check_lockstring(caller, COLLAB_TYPES(ctype).create_lock)
             THEN "no_create_perm"
        ELSE IF ~named THEN "no_name"
        ELSE IF rhs # NoObj /\ rhs \notin objects THEN "no_destination"
        ELSE "created"

\* func that compares the owned count with the limit itself, for everyone.
creation_outcome_count(cmd, caller, switch, named, rhs) ==
    LET ctype == create_type(cmd, switch)
    IN  IF ctype \in not_permitted(cmd) THEN "not_permitted"
        ELSE IF ctype \notin TypeKeys THEN "key_error"
        ELSE IF ~check_lockstring(caller, COLLAB_TYPES(ctype).create_lock)
             THEN "no_create_perm"
        ELSE IF Cardinality(quota_queryset(quota_player(caller),
                                           COLLAB_TYPES(ctype).typeclass))
                    >= get_limit_for(quota_player(caller), ctype)
             THEN "quota_met"
        ELSE IF ~named THEN "no_name"
        ELSE IF rhs # NoObj /\ rhs \notin objects THEN "no_destination"
        ELSE "created"

\* func without the test of the create lock.
creation_outcome_noperm(cmd, caller, switch, named, rhs) ==
    LET ctype == create_type(cmd, switch)
    IN  IF ctype \in not_permitted(cmd) THEN "not_permitted"
        ELSE IF ctype \notin TypeKeys THEN "key_error"
        ELSE IF quota_check(quota_player(caller), ctype) = 0 THEN "quota_met"
        ELSE IF ~named THEN "no_name"
        ELSE IF rhs # NoObj /\ rhs \notin objects THEN "no_destination"
        ELSE "created"

\* What BaseCreationCommand.func reports, in the order of its checks.  The
\* create lock is looked up in COLLAB_TYPES before the type is tested to be
\* one of its keys: for a type that is no key the lookup raises KeyError.
creation_outcome(cmd, caller, switch, named, rhs) ==
    LET ctype == create_type(cmd, switch)
    IN  IF ctype \in not_permitted(cmd) THEN "not_permitted"
        ELSE IF ctype \notin TypeKeys THEN "key_error"
        ELSE IF ~check_lockstring(caller, COLLAB_TYPES(ctype).create_lock)
             THEN "no_create_perm"
        ELSE IF ctype \notin TypeKeys THEN "not_recognized"
        ELSE IF quota_check(quota_player(caller), ctype) = 0 THEN "quota_met"
        ELSE IF ~named THEN "no_name"
        ELSE IF rhs # NoObj /\ rhs \notin objects THEN "no_destination"
        ELSE "created"

\* BaseCreationCommand.func with create_object and post_creation.
CreationFunc(cmd, caller, switch, named, rhs) ==
    LET ctype == create_type(cmd, switch)
        outcome == creation_outcome(cmd, caller, switch, named, rhs)
        loc == get_location(cmd, caller)
        thing == nextid
    IN  IF outcome = "created"
        THEN /\ nextid <= MaxObjs
             /\ objects' = objects \cup {thing}
             /\ nextid' = nextid + 1
             /\ typeclass' = [typeclass EXCEPT
                                 ![thing] = COLLAB_TYPES(ctype).typeclass]
             /\ destination' = [destination EXCEPT ![thing] = rhs]
             /\ home' = [home EXCEPT
                            ![thing] = IF DefaultHome \in objects
                                       THEN DefaultHome ELSE NoObj]
             /\ last_created' = [last_created EXCEPT ![caller] = thing]
             /\ tags' = [tags EXCEPT ![thing] = post_creation(caller, thing)]
             /\ last' = [op |-> cmd, caller |-> caller, obj |-> thing,
                         arg |-> rhs, ctype |-> ctype, res |-> outcome,
                         denied |-> perm_check(caller, rhs, loc)]
             /\ UNCHANGED aside
             /\ UNCHANGED <<location, locks>>
        ELSE /\ last' = [op |-> cmd, caller |-> caller, obj |-> NoObj,
                         arg |-> rhs, ctype |-> ctype, res |-> outcome,
                         denied |-> FALSE]
             /\ UNCHANGED aside
             /\ UNCHANGED <<objects, nextid, typeclass, tags, destination, home,
                            location, locks, last_created>>

(* ----------------------------------------------------------------- @link *)

\* CmdLink.func with the two permission tests swapped for a test of the
\* source alone.
link_outcome_source_only(caller, lhs, rhs) ==
    IF lhs \notin objects THEN "no_source"
    ELSE IF rhs # NoObj /\ rhs \notin objects THEN "no_destination"
    ELSE IF ~collab_check(caller, lhs, <<"link">>) THEN "no_link_perm"
    ELSE IF rhs = NoObj THEN "unlinked" ELSE "linked"

\* CmdLink.func that asks for raw ownership instead of collab_check.
link_outcome_owner_only(caller, lhs, rhs) ==
    IF lhs \notin objects THEN "no_source"
    ELSE IF rhs # NoObj /\ rhs \notin objects THEN "no_destination"
    ELSE IF ~controls(caller, lhs) THEN "no_link_perm"
    ELSE IF rhs # NoObj /\ ~controls(caller, rhs) THEN "no_link_to_perm"
    ELSE IF rhs = NoObj THEN "unlinked" ELSE "linked"

\* CmdLink.func that tests the 'link' lock on the destination too.
link_outcome_link_lock(caller, lhs, rhs) ==
    IF lhs \notin objects THEN "no_source"
    ELSE IF rhs # NoObj /\ rhs \notin objects THEN "no_destination"
    ELSE IF ~collab_check(caller, lhs, <<"link">>) THEN "no_link_perm"
    ELSE IF rhs # NoObj /\ ~collab_check(caller, rhs, <<"link">>)
         THEN "no_link_to_perm"
    ELSE IF rhs = NoObj THEN "unlinked" ELSE "linked"

\* What CmdLink.func reports, in the order of its checks.  lhs and rhs are
\* the objects the two searches look for; rhs = NoObj is "no destination
\* given".
link_outcome(caller, lhs, rhs) ==
    IF lhs \notin objects THEN "no_source"
    ELSE IF rhs # NoObj /\ rhs \notin objects THEN "no_destination"
    ELSE IF ~collab_check(caller, lhs, <<"link">>) THEN "no_link_perm"
    ELSE IF rhs # NoObj /\ ~collab_check(caller, rhs, <<"link_to">>)
         THEN "no_link_to_perm"
    ELSE IF rhs = NoObj THEN "unlinked" ELSE "linked"

\* CmdLink.func that stores the destination before the 'link_to' check.
CmdLink_early_write(caller, lhs, rhs) ==
    LET outcome == link_outcome(caller, lhs, rhs)
    IN  /\ destination' =
               IF outcome \in {"linked", "unlinked", "no_link_to_perm"}
               THEN [destination EXCEPT ![lhs] = rhs]
               ELSE destination
        /\ last' = [op |-> "@link", caller |-> caller, obj |-> lhs,
                    arg |-> rhs, ctype |-> NoType, res |-> outcome,
                    denied |-> FALSE]
        /\ UNCHANGED aside
        /\ UNCHANGED <<objects, nextid, typeclass, tags, home, location,
                       locks, last_created>>

\* CmdLink.func
CmdLink(caller, lhs, rhs) ==
    LET outcome == link_outcome(caller, lhs, rhs)
    IN  /\ destination' =
               IF outcome \in {"linked", "unlinked"}
               THEN [destination EXCEPT ![lhs] = rhs]
               ELSE destination
        /\ last' = [op |-> "@link", caller |-> caller, obj |-> lhs,
                    arg |-> rhs, ctype |-> NoType, res |-> outcome,
                    denied |-> FALSE]
        /\ UNCHANGED aside
        /\ UNCHANGED <<objects, nextid, typeclass, tags, home, location,
                       locks, last_created>>

(* ----------------------------------------------------------------- @home *)

\* CmdSetHome.func that accepts either check instead of both.
home_outcome_either(caller, lhs, rhs) ==
    IF lhs \notin objects THEN "no_object"
    ELSE IF rhs # NoObj /\ rhs \notin objects THEN "no_home"
    ELSE IF rhs = NoObj
         THEN IF collab_check(caller, lhs, <<"home">>) THEN "cleared"
              ELSE "no_home_perm"
    ELSE IF /\ ~collab_check(caller, lhs, <<"home">>)
            /\ ~collab_check(caller, rhs, <<"home_to">>)
         THEN "no_home_perm"
    ELSE "set"

\* What CmdSetHome.func reports, in the order of its checks.  lhs and rhs
\* are the objects the two searches look for; rhs = NoObj is "no home
\* given".
home_outcome(caller, lhs, rhs) ==
    IF lhs \notin objects THEN "no_object"
    ELSE IF rhs # NoObj /\ rhs \notin objects THEN "no_home"
    ELSE IF ~collab_check(caller, lhs, <<"home">>) THEN "no_home_perm"
    ELSE IF rhs # NoObj /\ ~collab_check(caller, rhs, <<"home_to">>)
         THEN "no_home_to_perm"
    ELSE IF rhs = NoObj THEN "cleared" ELSE "set"

\* CmdSetHome.func
CmdSetHome(caller, lhs, rhs) ==
    LET outcome == home_outcome(caller, lhs, rhs)
    IN  /\ home' = IF outcome \in {"set", "cleared"}
                   THEN [home EXCEPT ![lhs] = rhs]
                   ELSE home
        /\ last' = [op |-> "@home", caller |-> caller, obj |-> lhs,
                    arg |-> rhs, ctype |-> NoType, res |-> outcome,
                    denied |-> FALSE]
        /\ UNCHANGED aside
        /\ UNCHANGED <<objects, nextid, typeclass, tags, destination,
                       location, locks, last_created>>

(* ----------------------------------------------------------------- @lock *)

\* CmdCollabLock.func: pre_collab with the default lock list, then the
\* host's @lock, which stores the lock string.
CmdCollabLock(caller, lhs, lockstring) ==
    LET outcome == IF lhs \notin objects THEN "no_object"
                   ELSE IF ~collab_check(caller, lhs, <<>>) THEN "no_lock_perm"
                   ELSE "locked"
    IN  /\ locks' = IF outcome = "locked"
                    THEN [locks EXCEPT ![lhs] = lockstring]
                    ELSE locks
        /\ last' = [op |-> "@lock", caller |-> caller, obj |-> lhs,
                    arg |-> NoObj, ctype |-> NoType, res |-> outcome,
                    denied |-> FALSE]
        /\ UNCHANGED aside
        /\ UNCHANGED <<objects, nextid, typeclass, tags, destination, home,
                       location, last_created>>

(* ---------------------------------------------------------------- @chown *)

\* inherits_from(new_owner, BASE_CHARACTER_TYPECLASS) or
\* inherits_from(new_owner, BASE_PLAYER_TYPECLASS), for a search result.
allowed_class(new_owner) ==
    /\ new_owner \in objects
    /\ typeclass[new_owner] \in {"Character", "Player"}

\* The final set_owner call writing both tags with the caller itself.
chown_tags_raw(caller, target) ==
    {t \in tags[target] : t.category \notin {"owner", "display_owner"}}
        \cup {[category |-> "display_owner", key |-> owner_tag_key(caller)],
              [category |-> "owner", key |-> owner_tag_key(caller)]}

\* The final set_owner call made for the caller's account.
chown_tags_player(caller, target) == set_owner(PlayerOf(caller), target)

\* The final set_owner call that leaves the earlier tags in place.
chown_tags_keep_old(caller, target) ==
    tags[target] \cup set_owner(caller, target)

\* set_owner(self.caller, target), the last call of CmdChown.func: the tag
\* store of the target afterwards.
chown_tags(caller, target) == set_owner(caller, target)

\* CmdChown.func without the test of the new owner's class.
chown_outcome_no_class_check(caller, lhs, rhs) ==
    IF rhs # NoObj /\ rhs \notin objects THEN "attribute_error"
    ELSE IF lhs \notin objects THEN "no_target"
    ELSE IF is_owner(caller, lhs, TRUE) THEN "already_owner"
    ELSE IF ~collab_check(caller, lhs, <<"chown">>) THEN "no_chown_perm"
    ELSE "chowned"

\* CmdChown.func without the 'chown' check on the target.
chown_outcome_no_perm_check(caller, lhs, rhs) ==
    IF rhs # NoObj /\ rhs \notin objects THEN "attribute_error"
    ELSE IF rhs # NoObj /\ ~allowed_class(rhs) THEN "bad_owner_class"
    ELSE IF rhs # NoObj /\ ~collab_check(caller, rhs, <<"chown_to">>)
         THEN "no_chown_to_perm"
    ELSE IF lhs \notin objects THEN "no_target"
    ELSE IF is_owner(caller, lhs, TRUE) THEN "already_owner"
    ELSE "chowned"

\* What CmdChown.func reports, in the order of its checks.  lhs and rhs are
\* the objects the two searches look for; rhs = NoObj is "no new owner
\* given".  A new owner the search does not find is None, which fails the
\* class test and has no name for the message.
chown_outcome(caller, lhs, rhs) ==
    IF rhs # NoObj /\ rhs \notin objects THEN "attribute_error"
    ELSE IF rhs # NoObj /\ ~allowed_class(rhs) THEN "bad_owner_class"
    ELSE IF rhs # NoObj /\ ~collab_check(caller, rhs, <<"chown_to">>)
         THEN "no_chown_to_perm"
    ELSE IF lhs \notin objects THEN "no_target"
    ELSE IF is_owner(caller, lhs, TRUE) THEN "already_owner"
    ELSE IF ~collab_check(caller, lhs, <<"chown">>) THEN "no_chown_perm"
    ELSE "chowned"

\* CmdChown.func
CmdChown(caller, lhs, rhs) ==
    LET outcome == chown_outcome(caller, lhs, rhs)
    IN  /\ tags' = IF outcome = "chowned"
                   THEN [tags EXCEPT ![lhs] = chown_tags(caller, lhs)]
                   ELSE tags
        /\ last' = [op |-> "@chown", caller |-> caller, obj |-> lhs,
                    arg |-> rhs, ctype |-> NoType, res |-> outcome,
                    denied |-> FALSE]
        /\ UNCHANGED aside
        /\ UNCHANGED <<objects, nextid, typeclass, destination, home, location,
                       locks, last_created>>

(* ------------------------------------------------------------- @buildnick *)

\* caller.search(name) for a nick of the caller: the nick is replaced by the
\* dbref it stands for, which finds the object with that id if it exists.
nick_search(caller, name) ==
    LET replacement == nicks[caller][name]
    IN  IF replacement = NoNick THEN NoObj
        ELSE IF replacement[2] \in objects THEN replacement[2]
        ELSE NoObj

\* CmdBuildNick.func that keeps the reference to the last created object.
CmdBuildNick_keep(caller, args) ==
    LET thing == last_created[caller]
    IN  /\ nicks' = IF thing = NoObj THEN nicks
                    ELSE [nicks EXCEPT ![caller][args] = dbref(thing)]
        /\ last' = [op |-> "@buildnick", caller |-> caller, obj |-> thing,
                    arg |-> NoObj, ctype |-> NoType,
                    res |-> IF thing = NoObj THEN "no_last_created"
                            ELSE IF args = "" THEN "usage" ELSE "ok",
                    denied |-> FALSE, nick |-> args]
        /\ UNCHANGED <<permissions, attrs, last_created>>
        /\ UNCHANGED <<objects, nextid, typeclass, tags, destination, home,
                       location, locks>>

\* CmdBuildNick.func: without a last created object it reports that and
\* stops; otherwise (after the usage line when no name is given) it adds
\* the nick for the dbref of that object and deletes the reference.
CmdBuildNick(caller, args) ==
    LET thing == last_created[caller]
    IN  /\ nicks' = IF thing = NoObj THEN nicks
                    ELSE [nicks EXCEPT ![caller][args] = dbref(thing)]
        /\ last_created' = [last_created EXCEPT ![caller] = NoObj]
        /\ last' = [op |-> "@buildnick", caller |-> caller, obj |-> thing,
                    arg |-> NoObj, ctype |-> NoType,
                    res |-> IF thing = NoObj THEN "no_last_created"
                            ELSE IF args = "" THEN "usage" ELSE "ok",
                    denied |-> FALSE, nick |-> args]
        /\ UNCHANGED <<permissions, attrs>>
        /\ UNCHANGED <<objects, nextid, typeclass, tags, destination, home,
                       location, locks>>

(* ----------------------------------------------------------- permissions *)

\* player.permissions.clear() followed by player.permissions.add(perm).
SetPermission(p, perm) ==
    /\ permissions' = [permissions EXCEPT ![p] = perm]
    /\ last' = [op |-> "permissions", caller |-> p, obj |-> NoObj,
                arg |-> NoObj, ctype |-> NoType, res |-> perm,
                denied |-> FALSE]
    /\ UNCHANGED <<attrs, nicks>>
    /\ UNCHANGED <<objects, nextid, typeclass, tags, destination, home,
                   location,
                   locks, last_created>>

(* -------------------------------------------------------------- @destroy *)

\* CmdDestroy.func where /force also overrides the 'delete' check.
destroy_outcome_force_first(caller, target, force) ==
    IF target \notin objects THEN "no_target"
    ELSE IF ~force /\ ~collab_check(caller, target, <<"delete">>)
         THEN "no_delete_perm"
    ELSE IF CharObj(caller) = target THEN "suicide"
    ELSE IF get_owner(target, TRUE) # PlayerOf(caller) /\ ~force
         THEN "not_owner"
    ELSE "destroyed"

\* CmdDestroy.func that does not look at the switches.
destroy_outcome_no_force(caller, target, force) ==
    IF target \notin objects THEN "no_target"
    ELSE IF ~collab_check(caller, target, <<"delete">>) THEN "no_delete_perm"
    ELSE IF CharObj(caller) = target THEN "suicide"
    ELSE IF get_owner(target, TRUE) # PlayerOf(caller) THEN "not_owner"
    ELSE "destroyed"

\* What CmdDestroy.func reports, in the order of its checks.  target is the
\* object the search looks for, force is "'force' in self.switches".
destroy_outcome(caller, target, force) ==
    IF target \notin objects THEN "no_target"
    ELSE IF ~collab_check(caller, target, <<"delete">>) THEN "no_delete_perm"
    ELSE IF CharObj(caller) = target THEN "suicide"
    ELSE IF get_owner(target, TRUE) # PlayerOf(caller) /\ ~force
         THEN "not_owner"
    ELSE "destroyed"

\* CmdDestroy.func
CmdDestroy(caller, target, force) ==
    LET outcome == destroy_outcome(caller, target, force)
    IN  /\ IF outcome = "destroyed"
           THEN delete(target)
           ELSE UNCHANGED <<objects, nextid, typeclass, tags, destination, home,
                            location, locks, last_created, attrs>>
        /\ last' = [op |-> "@destroy", caller |-> caller, obj |-> target,
                    arg |-> NoObj, ctype |-> NoType, res |-> outcome,
                    denied |-> FALSE, force |-> force]
        /\ UNCHANGED <<permissions, nicks>>

(* ------------------------------------------------------------------ next *)

\* Objects the library operations and commands are aimed at: every object
\* but the two characters.
Targets == ObjIds \ CharIds

\* One creation command, its destination argument drawn from dests.
Creation(dests) ==
    \E c \in Chars, named \in BOOLEAN, rhs \in dests :
        \/ \E sw \in {NoType, RoomType} :
               CreationFunc("@create", c, sw, named, rhs)
        \/ CreationFunc("@dig", c, NoType, named, rhs)
        \/ CreationFunc("@open", c, NoType, named, rhs)

\* The ownership ledger and the quota engine under the creation commands.
Next ==
    \/ \E a \in Actors, o \in Targets : SetOwner(a, o)
    \/ \E o \in Targets : Delete(o)
    \/ Creation({NoObj})

Spec == Init /\ [][Next]_vars

(* ------------------------------------------------------ linking scenario *)

\* The exit fixture of CollabTest, the first object after the characters.
ExitObj == 4

\* CollabTest fixtures for the link tests: room1, the characters and the
\* exit, all without owner.
InitLink ==
    /\ objects = {Room1, ExitObj} \cup CharIds
    /\ nextid = 5
    /\ typeclass = [o \in ObjIds |->
                       IF o = Room1 THEN "CollabRoom"
                       ELSE IF o \in CharIds THEN "Character"
                       ELSE IF o = ExitObj THEN "CollabExit" ELSE NoType]
    /\ tags = [o \in ObjIds |-> {}]
    /\ destination = [o \in ObjIds |-> NoObj]
    /\ home = [o \in ObjIds |-> IF o \in objects THEN DefaultHome ELSE NoObj]
    /\ location = [c \in Chars |-> Room1]
    /\ locks = [o \in ObjIds |-> {}]
    /\ last_created = [c \in Chars |-> NoObj]
    /\ permissions = Permissions0
    /\ attrs = [o \in ObjIds |-> NoAttrs]
    /\ nicks = [c \in Chars |-> NoNicks]
    /\ last = NoReport

\* The objects named in the link tests: the room and the exit.
LinkTargets == {Room1, ExitObj}

\* Ownership changes, lock changes and @link over the fixtures.
NextLink ==
    \/ \E a \in {"player", "char2"}, o \in LinkTargets : SetOwner(a, o)
    \/ \E c \in Chars, o \in LinkTargets, l \in LockChoices :
           CmdCollabLock(c, o, l)
    \/ \E c \in Chars, lhs \in LinkTargets, rhs \in {NoObj} \cup LinkTargets :
           CmdLink(c, lhs, rhs)

SpecLink == InitLink /\ [][NextLink]_vars

(* ------------------------------------------------------ switch scenario *)

\* A switch that is no key of COLLAB_TYPES.
UnknownType == "widget"

\* First switches typed after a creation command: none, the default type,
\* the room type and an unknown one.
Switches == {NoType, DefaultType, RoomType, UnknownType}

\* The creation commands with every switch, among ownership changes and
\* deletions.
NextSwitch ==
    \/ \E a \in {"player2", "char2"}, o \in Targets : SetOwner(a, o)
    \/ \E o \in Targets : Delete(o)
    \/ \E c \in Chars, sw \in Switches, named \in BOOLEAN :
           \/ CreationFunc("@create", c, sw, named, NoObj)
           \/ CreationFunc("@dig", c, sw, named, NoObj)
           \/ CreationFunc("@open", c, sw, named, NoObj)

SpecSwitch == Init /\ [][NextSwitch]_vars

(* ---------------------------------------------------- building scenario *)

\* Permission groups the tests give to player2.
BuilderPerms == {"Player", "Builders"}

\* The creation commands followed by @buildnick, as the tests retrieve the
\* created object; player2's permissions are reset as in test_perm_check,
\* and objects are deleted.
NextBuild ==
    \/ \E perm \in BuilderPerms : SetPermission("player2", perm)
    \/ Creation({NoObj})
    \/ \E c \in Chars, n \in NickNames : CmdBuildNick(c, n)
    \/ \E o \in Targets : Delete(o)

SpecBuild == Init /\ [][NextBuild]_vars

(* -------------------------------------------------------- home scenario *)

\* Lock strings for @home: the exit admits 'home' from everyone, the room
\* admits 'home_to' from everyone, every other lock is closed.
HomeLocks ==
    [o \in ObjIds |-> IF o = ExitObj THEN {"home"}
                      ELSE IF o = Room1 THEN {"home_to"} ELSE {}]

InitHome ==
    /\ objects = {Room1, ExitObj} \cup CharIds
    /\ nextid = ExitObj + 1
    /\ typeclass = [o \in ObjIds |->
                       IF o = Room1 THEN "CollabRoom"
                       ELSE IF o = ExitObj THEN "CollabExit"
                       ELSE IF o \in CharIds THEN "Character" ELSE NoType]
    /\ tags = [o \in ObjIds |-> {}]
    /\ destination = [o \in ObjIds |-> NoObj]
    /\ home = [o \in ObjIds |-> IF o \in objects THEN DefaultHome ELSE NoObj]
    /\ location = [c \in Chars |-> Room1]
    /\ locks = HomeLocks
    /\ last_created = [c \in Chars |-> NoObj]
    /\ permissions = Permissions0
    /\ attrs = [o \in ObjIds |-> NoAttrs]
    /\ nicks = [c \in Chars |-> NoNicks]
    /\ last = NoReport

\* The homes named after @home: none, the room, the exit and a character.
HomeChoices == {NoObj, Room1, ExitObj, CharObj("char1")}

\* Ownership changes, deletion of the exit and @home over the fixtures.
NextHome ==
    \/ \E a \in {"player", "char2"}, o \in Targets : SetOwner(a, o)
    \/ Delete(ExitObj)
    \/ \E c \in Chars, lhs \in Targets, rhs \in HomeChoices :
           CmdSetHome(c, lhs, rhs)

SpecHome == InitHome /\ [][NextHome]_vars

(* ----------------------------------------------------- destroy scenario *)

\* Lock strings of the fixtures in the destroy tests: the room admits
\* 'delete' from everyone, every other lock is closed.
DestroyLocks == [o \in ObjIds |-> IF o = Room1 THEN {"delete"} ELSE {}]

InitDestroy ==
    /\ objects = {Room1} \cup CharIds
    /\ nextid = 4
    /\ typeclass = [o \in ObjIds |->
                       IF o = Room1 THEN "CollabRoom"
                       ELSE IF o \in CharIds THEN "Character" ELSE NoType]
    /\ tags = [o \in ObjIds |-> {}]
    /\ destination = [o \in ObjIds |-> NoObj]
    /\ home = [o \in ObjIds |-> IF o \in objects THEN DefaultHome ELSE NoObj]
    /\ location = [c \in Chars |-> Room1]
    /\ locks = DestroyLocks
    /\ last_created = [c \in Chars |-> NoObj]
    /\ permissions = Permissions0
    /\ attrs = [o \in ObjIds |-> NoAttrs]
    /\ nicks = [c \in Chars |-> NoNicks]
    /\ last = NoReport

\* set_owner as the destroy tests call it, @create and @destroy with and
\* without /force, by the characters that still exist.
NextDestroy ==
    \/ \E p \in Players, o \in Targets : SetOwner(p, o)
    \/ \E c \in Chars :
           /\ CharObj(c) \in objects
           /\ CreationFunc("@create", c, NoType, TRUE, NoObj)
    \/ \E c \in Chars, o \in ObjIds, f \in BOOLEAN :
           /\ CharObj(c) \in objects
           /\ CmdDestroy(c, o, f)

SpecDestroy == InitDestroy /\ [][NextDestroy]_vars

(* ------------------------------------------------------- chown scenario *)

\* Lock strings of the fixtures in the chown tests: the room admits 'chown'
\* from everyone, every other lock is closed.
ChownLocks == [o \in ObjIds |-> IF o = Room1 THEN {"chown"} ELSE {}]

InitChown ==
    /\ objects = {Room1} \cup CharIds
    /\ nextid = 4
    /\ typeclass = [o \in ObjIds |->
                       IF o = Room1 THEN "CollabRoom"
                       ELSE IF o \in CharIds THEN "Character" ELSE NoType]
    /\ tags = [o \in ObjIds |-> {}]
    /\ destination = [o \in ObjIds |-> NoObj]
    /\ home = [o \in ObjIds |-> IF o \in objects THEN DefaultHome ELSE NoObj]
    /\ location = [c \in Chars |-> Room1]
    /\ locks = ChownLocks
    /\ last_created = [c \in Chars |-> NoObj]
    /\ permissions = Permissions0
    /\ attrs = [o \in ObjIds |-> NoAttrs]
    /\ nicks = [c \in Chars |-> NoNicks]
    /\ last = NoReport

\* What the caller of @chown names as new owner: nothing, the room, a
\* character, or the object with the last id, which the search does not
\* find until it is created.
NewOwners == {NoObj, Room1, MaxObjs} \cup CharIds

\* Creation (@create and @dig), set_owner, @chown and deletion over the
\* fixtures.
NextChown ==
    \/ \E o \in Targets : SetOwner("player2", o)
    \/ \E o \in Targets : Delete(o)
    \/ \E c \in Chars :
           \/ CreationFunc("@create", c, NoType, TRUE, NoObj)
           \/ CreationFunc("@dig", c, NoType, TRUE, NoObj)
    \/ \E c \in Chars, lhs \in Targets, rhs \in NewOwners :
           CmdChown(c, lhs, rhs)

SpecChown == InitChown /\ [][NextChown]_vars

(* ------------------------------------------------------- attribute names *)

\* Attribute names are sequences of one-character strings.
Wizh == <<"w", "i", "z", "h", "_">>

Usrh == <<"u", "s", "r", "h", "_">>

\* The configured prefix table, in priority order.
PrefixTable ==
    << [prefix |-> Wizh, handler |-> "wizh"],
       [prefix |-> Usrh, handler |-> "usrh"] >>

\* The handler an unprefixed name goes to (UserAttributeHandler).
DefaultHandler == "usr"

\* The raw/system store (AttributeHandler, obj.db).
RawHandler == ""

\* The attribute handlers an object exposes; an object without a typeclass
\* has no attribute storage.
HandlersOf(obj) ==
    IF typeclass[obj] = NoType THEN {}
    ELSE {"wizh", "usrh", DefaultHandler, RawHandler}

\* str.startswith
StartsWith(name, prefix) ==
    /\ Len(name) >= Len(prefix)
    /\ SubSeq(name, 1, Len(prefix)) = prefix

\* name[n:]
Strip(name, n) == SubSeq(name, n + 1, Len(name))

\* prefix_check that cuts the name at its first underscore whether or not
\* the part before it is a configured prefix.
prefix_check_split(obj, name) ==
    LET hits == {i \in 1..Len(PrefixTable) :
                    /\ StartsWith(name, PrefixTable[i].prefix)
                    /\ PrefixTable[i].handler \in HandlersOf(obj)}
        cuts == {i \in 1..Len(name) : name[i] = "_"}
        cut == IF cuts = {} THEN 0
               ELSE CHOOSE i \in cuts : \A j \in cuts : i <= j
    IN  IF hits # {}
        THEN [name |-> Strip(name, cut),
              handler |-> PrefixTable[CHOOSE i \in hits :
                                          \A j \in hits : i <= j].handler]
        ELSE IF StartsWith(name, <<"_">>)
             THEN [name |-> Strip(name, cut), handler |-> RawHandler]
        ELSE [name |-> Strip(name, cut), handler |-> DefaultHandler]

\* prefix_check(obj, attr_name): the bare name and the handler kind.  The
\* first table entry whose prefix the name starts with and whose handler
\* the object exposes wins; else a leading underscore selects the raw store;
\* else the name goes unchanged to the default handler.
prefix_check(obj, name) ==
    LET hits == {i \in 1..Len(PrefixTable) :
                    /\ StartsWith(name, PrefixTable[i].prefix)
                    /\ PrefixTable[i].handler \in HandlersOf(obj)}
    IN  IF hits # {}
        THEN LET first == CHOOSE i \in hits : \A j \in hits : i <= j
             IN  [name |-> Strip(name, Len(PrefixTable[first].prefix)),
                  handler |-> PrefixTable[first].handler]
        ELSE IF StartsWith(name, <<"_">>)
             THEN [name |-> Strip(name, 1), handler |-> RawHandler]
        ELSE [name |-> name, handler |-> DefaultHandler]

\* CmdCollabSetAttribute.check_attr
check_attr(caller, obj, attr_name) ==
    attr_check(caller, obj, "write", prefix_check(obj, attr_name).handler)

\* Longest remainder of the attribute names tried.
MaxName == 2

NameChars == {"t", "_"}

\* What follows the prefix: every string over NameChars up to MaxName long.
NameBodies ==
    UNION {[1..n -> NameChars] : n \in 0..MaxName}

\* How the names tried begin: nothing, the two prefixes, an underscore, and
\* near misses of the prefixes.
NameHeads ==
    {<<>>, Wizh, Usrh, <<"_">>, <<"w", "i", "z", "h">>,
     <<"w", "i", "z", "_">>, <<"u", "s", "r", "_">>}

AttrNames == {h \o b : h \in NameHeads, b \in NameBodies}

\* prefix_check(obj, name) called directly, as the tests do.
PrefixCheck(obj, name) ==
    /\ obj \in objects
    /\ last' = [op |-> "prefix_check", caller |-> NoActor, obj |-> obj,
                arg |-> NoObj, ctype |-> NoType, denied |-> FALSE,
                name |-> name, res |-> prefix_check(obj, name)]
    /\ UNCHANGED aside
    /\ UNCHANGED <<objects, nextid, typeclass, tags, destination, home,
                   location,
                   locks, last_created>>

\* check_attr of @set for one attribute name.
CheckAttr(caller, obj, name) ==
    /\ obj \in objects
    /\ last' = [op |-> "check_attr", caller |-> caller, obj |-> obj,
                arg |-> NoObj, ctype |-> NoType, denied |-> FALSE,
                name |-> name,
                res |-> IF check_attr(caller, obj, name) THEN "allowed"
                        ELSE "no_attr_perm"]
    /\ UNCHANGED aside
    /\ UNCHANGED <<objects, nextid, typeclass, tags, destination, home,
                   location,
                   locks, last_created>>

(* ------------------------------------------------------ attribute values *)

\* Values typed after @set, as token sequences: a number, a list, and a
\* list that is never closed.
AttrValues == {<<"1">>, <<"[", "1", "]">>, <<"[", "1">>}

Brackets == {"[", "]"}

\* literal_eval: the primitive structure the text denotes, or a syntax
\* error when it denotes none.
literal_eval(value) ==
    IF Len(value) = 1 /\ value[1] \notin Brackets
    THEN [ok |-> TRUE, val |-> [kind |-> "int", items |-> value]]
    ELSE IF /\ Len(value) >= 2
            /\ value[1] = "["
            /\ value[Len(value)] = "]"
            /\ \A i \in 2..(Len(value) - 1) : value[i] \notin Brackets
         THEN [ok |-> TRUE,
               val |-> [kind |-> "list",
                        items |-> SubSeq(value, 2, Len(value) - 1)]]
    ELSE [ok |-> FALSE, val |-> NoValue]

\* handler.add(attr_name, value) on the stores of an object: the value is
\* parsed first; a value that does not parse raises SyntaxError and nothing
\* is stored.
handler_add(stores, handler, attr_name, value) ==
    LET parsed == literal_eval(value)
    IN  IF parsed.ok
        THEN [raised |-> FALSE,
              stores |-> [stores EXCEPT ![handler][attr_name] = parsed.val]]
        ELSE [raised |-> TRUE, stores |-> stores]

\* set_attr that drops the old value before it adds the new one.
set_attr_drop_first(obj, attr, value) ==
    LET pc == prefix_check(obj, attr)
        dropped == [attrs[obj] EXCEPT ![pc.handler][pc.name] = NoValue]
        added == handler_add(dropped, pc.handler, pc.name, value)
    IN  [stores |-> added.stores,
         msg |-> IF added.raised THEN "syntax_error" ELSE "created"]

\* CmdCollabSetAttribute.set_attr: the stores of obj afterwards and the
\* message returned.
set_attr(obj, attr, value) ==
    LET pc == prefix_check(obj, attr)
        added == handler_add(attrs[obj], pc.handler, pc.name, value)
    IN  [stores |-> added.stores,
         msg |-> IF added.raised THEN "syntax_error" ELSE "created"]

\* CmdCollabSetAttribute.check_obj
check_obj(caller, obj) == collab_check(caller, obj, <<"setattribute">>)

\* @set obj/attr = value: check_obj, then check_attr, then set_attr.
SetAttribute(caller, obj, attr, value) ==
    LET outcome == IF ~check_obj(caller, obj) THEN "no_setattr_perm"
                   ELSE IF ~check_attr(caller, obj, attr) THEN "no_attr_perm"
                   ELSE set_attr(obj, attr, value).msg
    IN  /\ obj \in objects
        /\ attrs' = IF outcome \in {"created", "syntax_error"}
                    THEN [attrs EXCEPT
                             ![obj] = set_attr(obj, attr, value).stores]
                    ELSE attrs
        /\ last' = [op |-> "@set", caller |-> caller, obj |-> obj,
                    arg |-> NoObj, ctype |-> NoType, denied |-> FALSE,
                    name |-> attr, value |-> value, res |-> outcome]
        /\ UNCHANGED <<permissions, nicks>>
        /\ UNCHANGED <<objects, nextid, typeclass, tags, destination, home,
                       location, locks, last_created>>

\* handler.has(name) on the stores of an object.
handler_has(stores, handler, name) ==
    /\ name \in DOMAIN stores[handler]
    /\ stores[handler][name] # NoValue

\* handler.get(name): the value, None when there is none.
handler_get(stores, handler, name) ==
    IF handler_has(stores, handler, name) THEN stores[handler][name]
    ELSE NoValue

\* handler.remove(name): the stores without that attribute.
handler_remove(stores, handler, name) ==
    IF handler_has(stores, handler, name)
    THEN [stores EXCEPT ![handler][name] = NoValue]
    ELSE stores

\* CmdCollabSetAttribute.view_attr: whether the attribute is reported and
\* the value shown.  The handler is asked for the name as typed, prefix
\* included, and the value is read under the bare name.
view_attr(obj, attr) ==
    LET pc == prefix_check(obj, attr)
    IN  IF handler_has(attrs[obj], pc.handler, attr)
        THEN [found |-> TRUE,
              val |-> handler_get(attrs[obj], pc.handler, pc.name)]
        ELSE [found |-> FALSE, val |-> NoValue]

\* CmdCollabSetAttribute.rm_attr: the stores of obj afterwards and whether
\* a deletion is reported.  The handler is asked for, and told to remove,
\* the name as typed, prefix included.
rm_attr(obj, attr) ==
    LET pc == prefix_check(obj, attr)
    IN  IF handler_has(attrs[obj], pc.handler, attr)
        THEN [found |-> TRUE,
              stores |-> handler_remove(attrs[obj], pc.handler, attr)]
        ELSE [found |-> FALSE, stores |-> attrs[obj]]

\* CmdCollabCpAttr.check_has_attr
check_has_attr(obj, attr) ==
    LET pc == prefix_check(obj, attr)
    IN  handler_has(attrs[obj], pc.handler, pc.name)

\* CmdCollabCpAttr.get_attr
get_attr(obj, attr) ==
    LET pc == prefix_check(obj, attr)
    IN  handler_get(attrs[obj], pc.handler, pc.name)

\* @set obj/attr: check_obj, then view_attr.
ViewAttribute(caller, obj, attr) ==
    /\ obj \in objects
    /\ last' = [op |-> "@set/view", caller |-> caller, obj |-> obj,
                arg |-> NoObj, ctype |-> NoType, denied |-> FALSE,
                name |-> attr,
                res |-> IF ~check_obj(caller, obj) THEN "no_setattr_perm"
                        ELSE "viewed",
                view |-> view_attr(obj, attr)]
    /\ UNCHANGED aside
    /\ UNCHANGED <<objects, nextid, typeclass, tags, destination, home,
                   location,
                   locks, last_created>>

\* @set obj/attr = : check_obj, then check_attr, then rm_attr.
RemoveAttribute(caller, obj, attr) ==
    LET outcome == IF ~check_obj(caller, obj) THEN "no_setattr_perm"
                   ELSE IF ~check_attr(caller, obj, attr) THEN "no_attr_perm"
                   ELSE IF rm_attr(obj, attr).found THEN "deleted"
                   ELSE "no_attribute"
    IN  /\ obj \in objects
        /\ attrs' = IF outcome = "deleted"
                    THEN [attrs EXCEPT ![obj] = rm_attr(obj, attr).stores]
                    ELSE attrs
        /\ last' = [op |-> "@set/rm", caller |-> caller, obj |-> obj,
                    arg |-> NoObj, ctype |-> NoType, denied |-> FALSE,
                    name |-> attr, res |-> outcome]
        /\ UNCHANGED <<permissions, nicks>>
        /\ UNCHANGED <<objects, nextid, typeclass, tags, destination, home,
                       location, locks, last_created>>

(* --------------------------------------------------------------- examine *)

\* The keys of collab_settings.COLLAB_PROPTYPE_PERMS: the handler kinds
\* that carry a prefix.
PropTypeKeys == {"wizh", "usrh", "usr", "pub"}

\* handler.all(): the attributes a handler of the object holds.
handler_all(obj, handler) ==
    {[handler |-> handler, name |-> n, val |-> attrs[obj][handler][n]] :
        n \in {m \in StoredNames : attrs[obj][handler][m] # NoValue}}

\* db_listing that lists every handler without the read check.
db_listing_unchecked(caller, obj) ==
    UNION {handler_all(obj, h) : h \in PropTypeKeys \cap HandlersOf(obj)}

\* CmdExamine.db_listing: the attributes listed.  A handler the object
\* does not have is skipped, and so is one the caller may not read.
db_listing(caller, obj) ==
    UNION {handler_all(obj, h) :
              h \in {k \in PropTypeKeys \cap HandlersOf(obj) :
                         attr_check(caller, obj, "read", k)}}

\* The lines of the full overview.
OverviewFields ==
    {"name", "display_owner", "true_owner", "typeclass", "permissions",
     "sessions", "location", "destination", "home", "scripts", "tags"}

\* CmdExamine.overview: the lines shown and the owner named in them.
overview(caller, obj) ==
    [shown |-> IF ~collab_check(caller, obj, <<"examine">>)
               THEN {"display_owner"}
               ELSE OverviewFields,
     display_owner |-> get_owner(obj, FALSE)]

\* CmdExamine.func: examine/db obj, and examine obj without switches.
CmdExamine(caller, obj, db) ==
    /\ last' = IF obj \notin objects
               THEN [op |-> "examine", caller |-> caller, obj |-> obj,
                     arg |-> NoObj, ctype |-> NoType, denied |-> FALSE,
                     res |-> "no_target", db |-> db]
               ELSE IF db
               THEN [op |-> "examine", caller |-> caller, obj |-> obj,
                     arg |-> NoObj, ctype |-> NoType, denied |-> FALSE,
                     res |-> "listed", db |-> db,
                     listing |-> db_listing(caller, obj)]
               ELSE [op |-> "examine", caller |-> caller, obj |-> obj,
                     arg |-> NoObj, ctype |-> NoType, denied |-> FALSE,
                     res |-> "overview", db |-> db,
                     view |-> overview(caller, obj)]
    /\ UNCHANGED aside
    /\ UNCHANGED <<objects, nextid, typeclass, tags, destination, home,
                   location,
                   locks, last_created>>

\* Names typed after @set: the bare names with and without each prefix.
SetNames ==
    StoredNames
        \cup {h \o b : h \in {Wizh, Usrh, <<"_">>}, b \in StoredNames}

\* @set (write, view and remove) and examine by the characters on the
\* fixtures, as ownership changes.
NextSet ==
    \/ \E o \in Targets : SetOwner("player2", o)
    \/ \E c \in Chars, o \in Targets, n \in SetNames, v \in AttrValues :
           SetAttribute(c, o, n, v)
    \/ \E c \in Chars, o \in Targets, n \in SetNames :
           ViewAttribute(c, o, n) \/ RemoveAttribute(c, o, n)
    \/ \E c \in Chars, o \in Targets, db \in BOOLEAN : CmdExamine(c, o, db)

SpecSet == Init /\ [][NextSet]_vars

\* Attribute name resolution and the write check of @set over the fixtures.
NextAttr ==
    \/ \E o \in Targets : SetOwner("player2", o)
    \/ \E o \in ObjIds, n \in AttrNames : PrefixCheck(o, n)
    \/ \E c \in Chars, o \in Targets, n \in AttrNames : CheckAttr(c, o, n)

SpecAttr == Init /\ [][NextAttr]_vars

(* -------------------------------------------------------- owner tag keys *)

\* Largest actor id encoded.
MaxId == 5

Seconds == 0..59

Microseconds == {0, 83, 999999}

\* Actors as owner_tag_key sees them: any id, class and creation time.
TagActors ==
    [id : 1..MaxId,
     date : [sec : Seconds, usec : Microseconds],
     cls : {"player", "character"}]

\* owner_tag_key of an actor with the given id and db_date_created, as
\* test_owner_tag_key sets them.
OwnerTagKey(rec) ==
    /\ last' = [op |-> "owner_tag_key", caller |-> NoActor, obj |-> NoObj,
                arg |-> NoObj, ctype |-> NoType, denied |-> FALSE,
                actor |-> rec, res |-> owner_tag_key_of(rec)]
    /\ UNCHANGED aside
    /\ UNCHANGED <<objects, nextid, typeclass, tags, destination, home,
                   location,
                   locks, last_created>>

NextTag == \E rec \in TagActors : OwnerTagKey(rec)

SpecTag == Init /\ [][NextTag]_vars

(* ----------------------------------------------------------- time_format *)

\* Largest number of whole days in the durations formatted.
MaxDays == 2

\* Durations handed to time_format: negative ones, and every mix of days,
\* hours, minutes and seconds at and around the unit boundaries.
Durations ==
    {-86400, -1}
        \cup {d * 86400 + h * 3600 + m * 60 + s :
                  d \in 0..MaxDays, h \in {0, 1, 9, 10, 23},
                  m \in {0, 1, 59}, s \in {0, 1, 59}}

Styles == {0, 1, 2}

DigitChars == <<"0", "1", "2", "3", "4", "5", "6", "7", "8", "9">>

RECURSIVE Digits(_)
\* '%i' % n for n >= 0: the decimal digits of n.
Digits(n) ==
    IF n < 10 THEN <<DigitChars[n + 1]>>
    ELSE Digits(n \div 10) \o <<DigitChars[(n % 10) + 1]>>

\* '%02i' % n for n >= 0: at least two digits, padded with a zero.
Pad2(n) == IF n < 10 THEN <<"0">> \o Digits(n) ELSE Digits(n)

\* The split that forgets to take the hours off the seconds.
time_parts_keep_hours(seconds) ==
    LET start == IF seconds < 0 THEN 0 ELSE seconds
        days == start \div 86400
        rest1 == start - days * 86400
        hours == rest1 \div 3600
        minutes == rest1 \div 60
        rest3 == rest1 - minutes * 60
    IN  [days |-> days, hours |-> hours, minutes |-> minutes,
         seconds |-> rest3]

\* The integer arithmetic of time_format: negative durations count as 0,
\* then days, hours and minutes are divided out one after the other.
time_parts(seconds) ==
    LET start == IF seconds < 0 THEN 0 ELSE seconds
        days == start \div 86400
        rest1 == start - days * 86400
        hours == rest1 \div 3600
        rest2 == rest1 - hours * 3600
        minutes == rest2 \div 60
        rest3 == rest2 - minutes * 60
    IN  [days |-> days, hours |-> hours, minutes |-> minutes,
         seconds |-> rest3]

\* time_format(seconds, style): the characters of the string returned.
time_format(seconds, style) ==
    LET p == time_parts(seconds)
    IN  IF style = 0
        THEN IF p.days > 0
             THEN Digits(p.days) \o <<"d", " ">> \o Pad2(p.hours)
                      \o <<":">> \o Pad2(p.minutes)
             ELSE Pad2(p.hours) \o <<":">> \o Pad2(p.minutes)
        ELSE IF style = 1
        THEN IF p.days > 0 THEN Digits(p.days) \o <<"d">>
             ELSE IF p.hours > 0 THEN Digits(p.hours) \o <<"h">>
             ELSE IF p.minutes > 0 THEN Digits(p.minutes) \o <<"m">>
             ELSE Digits(p.seconds) \o <<"s">>
        ELSE (IF p.days > 0 THEN Digits(p.days) \o <<" days, ">> ELSE <<>>)
             \o (IF p.days # 0 \/ p.hours > 0
                 THEN Digits(p.hours) \o <<" hours, ">> ELSE <<>>)
             \o (IF p.hours # 0 \/ p.minutes > 0
                 THEN Digits(p.minutes) \o <<" minutes, ">> ELSE <<>>)
             \o Digits(p.seconds) \o <<" seconds">>

\* A call of time_format.
TimeFormat(seconds, style) ==
    /\ last' = [op |-> "time_format", caller |-> NoActor, obj |-> NoObj,
                arg |-> NoObj, ctype |-> NoType, denied |-> FALSE,
                seconds |-> seconds, style |-> style,
                parts |-> time_parts(seconds),
                res |-> time_format(seconds, style)]
    /\ UNCHANGED aside
    /\ UNCHANGED <<objects, nextid, typeclass, tags, destination, home,
                   location, locks, last_created>>

NextTime == \E s \in Durations, st \in Styles : TimeFormat(s, st)

SpecTime == Init /\ [][NextTime]_vars

(* ---------------------------------------------------------------- claims *)

\* The display owner tag an object carries for the actor, read off the tag
\* store without decoding it.
HasDisplayTag(obj, actor) ==
    [category |-> "display_owner", key |-> owner_tag_key(actor)] \in tags[obj]

\* Live objects of the type that carry the actor's display owner tag.
OwnedOfType(actor, type_path) ==
    {o \in objects : typeclass[o] = type_path /\ HasDisplayTag(o, actor)}

IsCreation(report) == report.op \in CreationCmds

\* C1: right after set_owner(A, O), get_owner(O) is A, is_owner(A, O) holds
\* and is_owner(B, O) fails for every other actor B, immortals included; the
\* object carries one display owner tag, so a later set_owner replaces the
\* earlier display owner.
C1_SetOwnerThenOwner ==
    last.op = "set_owner" =>
        /\ get_owner(last.obj, FALSE) = last.caller
        /\ is_owner(last.caller, last.obj, FALSE)
        /\ \A b \in Actors \ {last.caller} : ~is_owner(b, last.obj, FALSE)
        /\ Cardinality(OwnerTags(last.obj, "display_owner")) = 1

\* C1 witness: player2 was made owner of an object first owned by the
\* immortal player, who is not reported as its owner any more.
C1_Witness ==
    /\ last.op = "set_owner"
    /\ last.caller = "player2"
    /\ get_owner(last.obj, TRUE) = "player"
    /\ IsImmortal("player")
    /\ ~is_owner("player", last.obj, FALSE)

\* C2: after a successful creation command of character C controlled by
\* account P, the display owner of the new object is C and its true owner
\* is P.
C2_CreationSetsOwners ==
    (IsCreation(last) /\ last.res = "created") =>
        /\ last.obj \in objects
        /\ get_owner(last.obj, FALSE) = last.caller
        /\ get_owner(last.obj, TRUE) = PlayerOf(last.caller)

\* C2 witness: char2 has just created an object.
C2_Witness ==
    /\ IsCreation(last)
    /\ last.res = "created"
    /\ last.caller = "char2"
    /\ last.obj \in objects

\* C3: a creation command of an actor whose quota_check for the requested
\* type is 0 creates nothing and leaves the actor's owned objects as they
\* were; with a positive quota_check the command is not refused for the
\* quota, and creates the object unless it is refused for another reason.
C3_QuotaRespected ==
    [][\A c \in Chars :
          (IsCreation(last') /\ last'.caller = c) =>
              /\ quota_check(PlayerOf(c), last'.ctype) = 0 =>
                     /\ last'.res # "created"
                     /\ objects' = objects
                     /\ \A t \in TypePaths :
                            quota_queryset(PlayerOf(c), t)'
                                = quota_queryset(PlayerOf(c), t)
              /\ quota_check(PlayerOf(c), last'.ctype) > 0 =>
                     /\ last'.res # "quota_met"
                     /\ last'.res \notin {"not_permitted", "no_create_perm",
                                          "no_name", "no_destination"}
                            => /\ last'.res = "created"
                               /\ last'.obj \in objects' \ objects]_vars

\* C3 witness: char2, whose account had used up its quota for the type, ran
\* a creation command and was refused; nothing was created.
C3_Witness ==
    /\ IsCreation(last)
    /\ last.res = "quota_met"
    /\ last.caller = "char2"
    /\ last.obj = NoObj
    /\ quota_check("player2", last.ctype) = 0

C5_ImmortalUnlimited ==
    /\ \A a \in Actors, t \in TypeKeys :
           IsImmortal(a) => quota_check(a, t) = inf
    /\ (IsCreation(last) /\ last.res = "quota_met") => ~IsImmortal(last.caller)

\* C5 witness: char1 dug a room although its account, the immortal player,
\* already owned as many rooms as the limit.
C5_Witness ==
    /\ last.op = "@dig"
    /\ last.res = "created"
    /\ last.caller = "char1"
    /\ Cardinality(OwnedOfType("player", "CollabRoom")) >= QuotaLimit

C7_CreationChargesAccount ==
    [][\A c \in Chars, k \in TypeKeys :
          (/\ IsCreation(last')
           /\ last'.res = "created"
           /\ last'.obj \notin objects
           /\ last'.caller = c
           /\ last'.ctype = k)
          => Cardinality(quota_queryset(PlayerOf(c),
                                        COLLAB_TYPES(k).typeclass)')
                 = Cardinality(quota_queryset(PlayerOf(c),
                                              COLLAB_TYPES(k).typeclass)) + 1
      ]_vars

\* C8: get_limit_for(A, T) is the configured quota of T in every state, also
\* when A owns objects of the type and quota_check(A, T) has dropped.
C8_LimitIndependentOfUsage ==
    \A a \in Actors, t \in TypeKeys :
        get_limit_for(a, t) = COLLAB_TYPES(t).quota

\* C8 witness: player2 owns a room, its remaining quota is 0 and the limit
\* is still the configured one.
C8_Witness ==
    /\ Cardinality(OwnedOfType("player2", "CollabRoom")) >= 1
    /\ quota_check("player2", RoomType) = 0
    /\ get_limit_for("player2", RoomType) = QuotaLimit

\* Lock lists handed to collab_check: the empty list and the lists of one
\* and of two of these names.
ListedLocks == {"control", "link", "link_to"}

LockLists ==
    {<<>>} \cup {<<a>> : a \in ListedLocks}
           \cup {<<a, b>> : a \in ListedLocks, b \in ListedLocks}

\* Every lock named in the list (the default list for an empty one) evaluates
\* true on the object for the actor.
AllLocksPass(actor, obj, locklist) ==
    LET names == IF locklist = <<>> THEN DefaultLocks ELSE locklist
    IN  \A i \in 1..Len(names) : access(obj, actor, names[i])

\* C9: an owner of an object passes collab_check for every lock list,
\* whatever the lock strings evaluate to; an actor who is neither immortal
\* nor owner passes exactly when every named lock evaluates true.  For @link:
\* a non-immortal caller links only a source they own or may 'link' to a
\* destination they own or may 'link_to', and a caller owning both does link.
C9_OwnerOverridesLocks ==
    /\ \A a \in Actors, o \in objects, l \in LockLists :
           /\ controls(a, o) => collab_check(a, o, l)
           /\ (~IsImmortal(a) /\ ~controls(a, o)) =>
                  (collab_check(a, o, l) <=> AllLocksPass(a, o, l))
    /\ (last.op = "@link" /\ last.res = "linked") =>
           /\ destination[last.obj] = last.arg
           /\ ~IsImmortal(last.caller) =>
                  /\ controls(last.caller, last.obj)
                         \/ access(last.obj, last.caller, "link")
                  /\ controls(last.caller, last.arg)
                         \/ access(last.arg, last.caller, "link_to")
    /\ (/\ last.op = "@link"
        /\ last.obj \in objects
        /\ last.arg \in objects
        /\ controls(last.caller, last.obj)
        /\ controls(last.caller, last.arg)) =>
           last.res = "linked" /\ destination[last.obj] = last.arg

\* C9 witness: char2 linked the exit it owns to the room it owns although
\* every lock of both evaluates false.
C9_Witness ==
    /\ last.op = "@link"
    /\ last.caller = "char2"
    /\ last.res = "linked"
    /\ last.obj = ExitObj
    /\ last.arg = Room1
    /\ controls("char2", ExitObj)
    /\ controls("char2", Room1)
    /\ locks[ExitObj] = {}
    /\ locks[Room1] = {}

\* C10: an immortal passes collab_check for every lock list and attr_check
\* for every handler kind and access type on every object, owned or not; no
\* @link or @lock of an immortal is refused for permissions.
C10_ImmortalPassesAll ==
    /\ \A a \in Actors, o \in objects :
           IsImmortal(a) =>
               /\ \A l \in LockLists : collab_check(a, o, l)
               /\ \A h \in HandlerKinds, t \in AccessTypes :
                      attr_check(a, o, t, h)
    /\ (last.op \in {"@link", "@lock"} /\ IsImmortal(last.caller)) =>
           last.res \notin {"no_link_perm", "no_link_to_perm", "no_lock_perm"}

\* C10 witness: char1, the immortal's character, linked an exit to a room,
\* owning neither, with every lock of both evaluating false.
C10_Witness ==
    /\ last.op = "@link"
    /\ last.caller = "char1"
    /\ last.res = "linked"
    /\ last.obj = ExitObj
    /\ last.arg = Room1
    /\ ~controls("char1", ExitObj)
    /\ ~controls("char1", Room1)
    /\ get_owner(ExitObj, FALSE) = "char2"
    /\ locks[ExitObj] = {}
    /\ locks[Room1] = {}
    /\ \A t \in AccessTypes : attr_check("char1", ExitObj, t, "wizh")

\* An object that carries no ownership tag of either kind.
Orphaned(obj) ==
    OwnerTags(obj, "owner") = {} /\ OwnerTags(obj, "display_owner") = {}

\* C11: for an object without ownership tags, get_owner gives the absent
\* value with and without player_check, is_owner is false for every actor,
\* and collab_check passes exactly for immortals and for actors for whom
\* every named lock evaluates true; a non-immortal's @link between orphaned
\* objects goes through exactly when the 'link' lock of the source and the
\* 'link_to' lock of the destination admit the caller.
C11_OrphanFallsBackToLocks ==
    /\ \A o \in objects :
           Orphaned(o) =>
               /\ get_owner(o, FALSE) = NoActor
               /\ get_owner(o, TRUE) = NoActor
               /\ \A a \in Actors :
                      /\ ~is_owner(a, o, FALSE)
                      /\ ~is_owner(a, o, TRUE)
                      /\ \A l \in LockLists :
                             collab_check(a, o, l)
                                 <=> (IsImmortal(a) \/ AllLocksPass(a, o, l))
    /\ (/\ last.op = "@link"
        /\ ~IsImmortal(last.caller)
        /\ last.obj \in objects
        /\ Orphaned(last.obj)
        /\ last.arg \in objects
        /\ Orphaned(last.arg)) =>
           (last.res = "linked"
                <=> /\ access(last.obj, last.caller, "link")
                    /\ access(last.arg, last.caller, "link_to"))

\* C11 witness: char2 linked the orphaned exit to the orphaned room; the
\* room admits 'link_to' and not 'link', and the immortal player is not
\* reported as owner of either.
C11_Witness ==
    /\ last.op = "@link"
    /\ last.caller = "char2"
    /\ last.res = "linked"
    /\ last.obj = ExitObj
    /\ last.arg = Room1
    /\ Orphaned(ExitObj)
    /\ Orphaned(Room1)
    /\ locks[Room1] = {"link_to", "create_in"}
    /\ get_owner(Room1, TRUE) = NoActor
    /\ ~is_owner("player", Room1, FALSE)
    /\ ~collab_check("char2", Room1, <<"link">>)

\* The object carries the actor's display owner tag or the true owner tag of
\* the actor's account, read off the tag store without decoding it.
OwnsByTag(actor, obj) ==
    \/ HasDisplayTag(obj, actor)
    \/ [category |-> "owner", key |-> owner_tag_key(PlayerOf(actor))]
           \in tags[obj]

C13_TestMatrix ==
    \A a \in Actors, o \in objects :
        ~IsImmortal(a) =>
            /\ \A t \in AccessTypes :
                   /\ ~attr_check(a, o, t, "wizh")
                   /\ ~attr_check(a, o, t, "")
                   /\ attr_check(a, o, t, "pub")
            /\ attr_check(a, o, "read", "usr")
            /\ attr_check(a, o, "write", "usr") <=> OwnsByTag(a, o)

\* C14: prefix_check depends only on the name and the handlers of the
\* object: a name starting with wizh_ or usrh_ gives the name without the
\* prefix and that handler; otherwise a name starting with '_' gives the
\* name without the underscore and the raw store; otherwise the name comes
\* back unchanged with the default user-facing handler.  For an object with
\* attribute storage the result is always a name and a handler.
C14_PrefixResolution ==
    /\ last.op = "prefix_check" =>
           LET n == last.name
               r == last.res
           IN  /\ r.handler \in HandlersOf(last.obj)
               /\ IF Len(n) >= 5 /\ SubSeq(n, 1, 5) = Wizh
                  THEN r = [name |-> SubSeq(n, 6, Len(n)), handler |-> "wizh"]
                  ELSE IF Len(n) >= 5 /\ SubSeq(n, 1, 5) = Usrh
                  THEN r = [name |-> SubSeq(n, 6, Len(n)), handler |-> "usrh"]
                  ELSE IF Len(n) >= 1 /\ n[1] = "_"
                  THEN r = [name |-> Tail(n), handler |-> ""]
                  ELSE r = [name |-> n, handler |-> "usr"]
    /\ \A o1 \in objects, o2 \in objects, n \in AttrNames :
           HandlersOf(o1) = HandlersOf(o2)
               => prefix_check(o1, n) = prefix_check(o2, n)

\* C14 witness: wiz_t, which only looks like a prefixed name, came back
\* unchanged with the default handler, while wizh__t gives _t on the
\* wizard-hidden handler and _t gives t on the raw store.
C14_Witness ==
    /\ last.op = "prefix_check"
    /\ last.name = <<"w", "i", "z", "_", "t">>
    /\ last.res = [name |-> <<"w", "i", "z", "_", "t">>, handler |-> "usr"]
    /\ prefix_check(last.obj, Wizh \o <<"_", "t">>)
           = [name |-> <<"_", "t">>, handler |-> "wizh"]
    /\ prefix_check(last.obj, <<"_", "t">>)
           = [name |-> <<"t">>, handler |-> ""]

\* C15: decoding the key owner_tag_key gives for an actor yields the actor's
\* id, its class and its creation date cut to whole seconds, whatever the
\* microseconds; an actor that differs from it in id, class or creation
\* second gets another key, and so do any two of the fixture actors.
C15_TagKeyRoundTrip ==
    /\ last.op = "owner_tag_key" =>
           /\ last.res.id = last.actor.id
           /\ last.res.cls = last.actor.cls
           /\ strptime(last.res.date)
                  = [sec |-> last.actor.date.sec, usec |-> 0]
           /\ \A other \in TagActors :
                  (\/ other.id # last.actor.id
                   \/ other.cls # last.actor.cls
                   \/ other.date.sec # last.actor.date.sec)
                      => owner_tag_key_of(other) # last.res
    /\ \A a \in Actors, b \in Actors :
           a # b => owner_tag_key(a) # owner_tag_key(b)

\* C15 witness: the player of test_owner_tag_key, id 5, created at second
\* 45 and microsecond 83; a character with the same id and date has
\* another key.
C15_Witness ==
    /\ last.op = "owner_tag_key"
    /\ last.actor = [id |-> 5, date |-> [sec |-> 45, usec |-> 83],
                     cls |-> "player"]
    /\ last.res.date = <<4, 5>>
    /\ strptime(last.res.date) = [sec |-> 45, usec |-> 0]
    /\ owner_tag_key_of([last.actor EXCEPT !.cls = "character"]) # last.res

\* The last operation was one that sets ownership, and it went through.
OwnershipSet(report) ==
    \/ report.op = "set_owner"
    \/ report.op = "@chown" /\ report.res = "chowned"
    \/ IsCreation(report) /\ report.res = "created"

\* C16: in every state reached by creation commands, set_owner, @chown and
\* deletions each object carries at most one true owner tag and at most one
\* display owner tag; after an operation that sets ownership the display
\* owner tag of its object is the one of the new owner alone.
C16_OneTagOfEachKind ==
    /\ \A o \in ObjIds :
           /\ Cardinality(OwnerTags(o, "owner")) <= 1
           /\ Cardinality(OwnerTags(o, "display_owner")) <= 1
    /\ OwnershipSet(last) =>
           /\ OwnerTags(last.obj, "display_owner")
                  = {[category |-> "display_owner",
                      key |-> owner_tag_key(last.caller)]}
           /\ Cardinality(OwnerTags(last.obj, "owner")) = 1

\* C16 witness: char1 chowned the room, which player2 had owned; the room
\* carries one tag of each kind.
C16_Witness ==
    /\ last.op = "@chown"
    /\ last.res = "chowned"
    /\ last.caller = "char1"
    /\ last.obj = Room1
    /\ OwnerTags(Room1, "owner")
           = {[category |-> "owner", key |-> owner_tag_key("player2")]}
    /\ Cardinality(OwnerTags(Room1, "display_owner")) = 1

\* C17: the true owner of an object, when there is one, is an account and
\* its tag is of class 'player'; when an operation of a character gives an
\* object its true owner tag, the true owner is the character's account.
C17_TrueOwnerIsAccount ==
    [][\A o \in ObjIds :
          /\ \A t \in OwnerTags(o, "owner")' : t.key.cls = "player"
          /\ get_owner(o, TRUE)' \in Players \cup {NoActor}
          /\ \A c \in Chars :
                 (/\ last'.caller = c
                  /\ last'.obj = o
                  /\ OwnerTags(o, "owner") = {}
                  /\ OwnerTags(o, "owner")' # {})
                 => get_owner(o, TRUE)' = PlayerOf(c)]_vars

\* C17 witness: char2 chowned the orphaned room; the true owner is player2.
C17_Witness ==
    /\ last.op = "@chown"
    /\ last.res = "chowned"
    /\ last.caller = "char2"
    /\ last.obj = Room1
    /\ get_owner(Room1, FALSE) = "char2"
    /\ get_owner(Room1, TRUE) = "player2"

\* C18: a @chown whose new owner is an object that is neither a character
\* nor a player, or one on which the caller fails 'chown_to', is refused and
\* leaves the tags of every object, the target's owners included, as they
\* were.
C18_BadNewOwnerRefused ==
    [][\A c \in Chars, new \in ObjIds :
          (/\ last'.op = "@chown"
           /\ last'.caller = c
           /\ last'.arg = new
           /\ new \in objects
           /\ \/ typeclass[new] \notin {"Character", "Player"}
              \/ ~collab_check(c, new, <<"chown_to">>))
          => /\ last'.res \in {"bad_owner_class", "no_chown_to_perm"}
             /\ tags' = tags
             /\ \A o \in ObjIds, pc \in BOOLEAN :
                    get_owner(o, pc)' = get_owner(o, pc)]_vars

\* C18 witness: char2 asked to chown the orphaned room, whose 'chown' lock
\* admits char2, to char1, on whom char2 fails 'chown_to'; the room is
\* still orphaned.
C18_Witness ==
    /\ last.op = "@chown"
    /\ last.res = "no_chown_to_perm"
    /\ last.caller = "char2"
    /\ last.obj = Room1
    /\ last.arg = CharObj("char1")
    /\ collab_check("char2", Room1, <<"chown">>)
    /\ Orphaned(Room1)

\* C19: after a successful '@chown object=new owner' the owner of the
\* object is the named new owner.
C19_ChownToNewOwner ==
    (last.op = "@chown" /\ last.res = "chowned" /\ last.arg # NoObj) =>
        \A c \in Chars :
            CharObj(c) = last.arg => get_owner(last.obj, FALSE) = c

\* C20 as stated: after a successful @chown of character C of account P the
\* display owner is C and the true owner is P, whatever the owners were.
C20_ChownSetsBothOwners ==
    (last.op = "@chown" /\ last.res = "chowned") =>
        /\ get_owner(last.obj, FALSE) = last.caller
        /\ get_owner(last.obj, TRUE) = PlayerOf(last.caller)

\* C20: after a successful @chown of character C of account P the display
\* owner is C; the true owner is P when the object had no true owner, and
\* the true owner it had otherwise.
C20_ChownSetsDisplayOwner ==
    [][\A c \in Chars, o \in ObjIds :
          (/\ last'.op = "@chown"
           /\ last'.res = "chowned"
           /\ last'.caller = c
           /\ last'.obj = o)
          => /\ get_owner(o, FALSE)' = c
             /\ get_owner(o, TRUE)'
                    = IF get_owner(o, TRUE) = NoActor THEN PlayerOf(c)
                      ELSE get_owner(o, TRUE)]_vars

\* C20 witness: char1, of the immortal player, chowned the room that
\* player2 owned; char1 is the display owner and player2 still the true
\* owner.
C20_Witness ==
    /\ last.op = "@chown"
    /\ last.res = "chowned"
    /\ last.caller = "char1"
    /\ last.obj = Room1
    /\ last.arg = NoObj
    /\ get_owner(Room1, FALSE) = "char1"
    /\ get_owner(Room1, TRUE) = "player2"

\* C21: a @chown on an object by an actor who fails the 'chown' collab_check
\* on it leaves the object's display owner and true owner as they were.
C21_ChownDeniedKeepsOwners ==
    [][\A c \in Chars, o \in ObjIds :
          (/\ last'.op = "@chown"
           /\ last'.caller = c
           /\ last'.obj = o
           /\ o \in objects
           /\ ~collab_check(c, o, <<"chown">>))
          => /\ get_owner(o, FALSE)' = get_owner(o, FALSE)
             /\ get_owner(o, TRUE)' = get_owner(o, TRUE)
             /\ last'.res # "chowned"]_vars

\* char2 was refused on an object that char1 owns.
C21_Witness ==
    /\ last.op = "@chown"
    /\ last.res = "no_chown_perm"
    /\ last.caller = "char2"
    /\ last.obj \in objects
    /\ get_owner(last.obj, FALSE) = "char1"
    /\ get_owner(last.obj, TRUE) = "player"

\* C24: @link changes the destination of the source only when the caller
\* passes collab_check 'link' on the source and, when a destination is given,
\* 'link_to' on the destination; when either check fails, or an object is
\* not found, every destination is what it was.
C24_LinkOnlyWithBothChecks ==
    [][\A c \in Chars, s \in ObjIds, d \in {NoObj} \cup ObjIds :
          (/\ last'.op = "@link"
           /\ last'.caller = c
           /\ last'.obj = s
           /\ last'.arg = d)
          => IF /\ s \in objects
                /\ collab_check(c, s, <<"link">>)
                /\ d # NoObj =>
                       d \in objects /\ collab_check(c, d, <<"link_to">>)
             THEN destination' = [destination EXCEPT ![s] = d]
             ELSE destination' = destination]_vars

\* char2 owns the exit but neither owns the room nor passes its 'link_to'
\* lock: the exit stays unlinked.
C24_Witness ==
    /\ last.op = "@link"
    /\ last.caller = "char2"
    /\ last.res = "no_link_to_perm"
    /\ last.obj = ExitObj
    /\ last.arg = Room1
    /\ controls("char2", ExitObj)
    /\ ~controls("char2", Room1)
    /\ "link_to" \notin locks[Room1]
    /\ destination[ExitObj] = NoObj

\* C25: when the creation-time permission check fails (the caller may not
\* link to the destination, or may not create in the location), the command
\* creates no object, and the caller's last-created reference and every
\* quota count stay as they were.
C25_DeniedCreationCreatesNothing ==
    [][(IsCreation(last') /\ last'.denied)
          => /\ objects' = objects
             /\ last_created' = last_created
             /\ \A a \in Actors, k \in TypeKeys :
                    quota_queryset(a, COLLAB_TYPES(k).typeclass)'
                        = quota_queryset(a, COLLAB_TYPES(k).typeclass)]_vars

\* C26: a command whose object, destination or new owner is not found ends
\* without an exception reaching the dispatcher and without changing which
\* objects exist, who owns them or where they lead.
C26_UnresolvedNameAbortsQuietly ==
    [][(\/ /\ last'.op \in {"@chown", "@link", "@destroy"}
           /\ last'.obj \notin objects
        \/ /\ last'.op \in {"@chown", "@link"} \cup CreationCmds
           /\ last'.arg # NoObj
           /\ last'.arg \notin objects)
          => /\ last'.res # "attribute_error"
             /\ UNCHANGED <<objects, tags, destination>>]_vars

\* Live objects of the type whose true owner is the account.
AccountOwned(p, type_path) ==
    {o \in objects : typeclass[o] = type_path /\ get_owner(o, TRUE) = p}

\* C30: whatever whole commands ran before, a creation command does not
\* succeed for a non-privileged account that already owns as many objects of
\* the requested type as its limit allows, so creation never takes the
\* account's count above the limit.
C30_CreationNeverExceedsLimit ==
    [][\A c \in Chars, k \in TypeKeys :
          (/\ IsCreation(last')
           /\ last'.res = "created"
           /\ last'.obj \notin objects
           /\ last'.caller = c
           /\ last'.ctype = k
           /\ ~quota_bypass(PlayerOf(c)))
          => Cardinality(AccountOwned(PlayerOf(c), COLLAB_TYPES(k).typeclass))
                 < get_limit_for(PlayerOf(c), k)]_vars

\* C22: an actor who fails collab_check for the 'delete' lock on an object
\* does not destroy it with @destroy, with or without /force: the object
\* still exists after the command; and no actor destroys themselves with
\* @destroy.
C22_DeleteCheckGuardsDestroy ==
    [][\A c \in Chars, o \in ObjIds :
          (/\ last'.op = "@destroy"
           /\ last'.caller = c
           /\ last'.obj = o
           /\ o \in objects
           /\ ~collab_check(c, o, <<"delete">>) \/ o = CharObj(c))
          => /\ o \in objects'
             /\ last'.res # "destroyed"]_vars

\* char2 used /force on an object owned by another account whose 'delete'
\* lock is closed; it is still there.
C22_Witness ==
    /\ last.op = "@destroy"
    /\ last.caller = "char2"
    /\ last.force
    /\ last.res = "no_delete_perm"
    /\ last.obj \in objects
    /\ get_owner(last.obj, TRUE) = "player"
    /\ "delete" \notin locks[last.obj]

\* C23 as stated: an actor who passes the 'delete' check on an object whose
\* true owner is not the actor's account destroys it exactly when /force is
\* given, and an actor whose account is the true owner destroys it without
\* /force.
C23_ForceDestroysUnowned ==
    [][\A c \in Chars, o \in ObjIds :
          (/\ last'.op = "@destroy"
           /\ last'.caller = c
           /\ last'.obj = o
           /\ o \in objects
           /\ collab_check(c, o, <<"delete">>))
          => IF get_owner(o, TRUE) = PlayerOf(c) THEN o \notin objects'
             ELSE IF last'.force THEN o \notin objects'
             ELSE o \in objects']_vars

\* C23: an actor who passes the 'delete' check on an object other than the
\* actor itself, whose true owner is not the actor's account, destroys it
\* exactly when /force is given: without /force the object still exists
\* after the command, with /force it is deleted; an actor whose account is
\* the true owner destroys it without /force.
C23_ForceDestroysUnownedOther ==
    [][\A c \in Chars, o \in ObjIds :
          (/\ last'.op = "@destroy"
           /\ last'.caller = c
           /\ last'.obj = o
           /\ o \in objects
           /\ o # CharObj(c)
           /\ collab_check(c, o, <<"delete">>))
          => IF get_owner(o, TRUE) = PlayerOf(c) THEN o \notin objects'
             ELSE IF last'.force THEN o \notin objects'
             ELSE o \in objects']_vars

\* char1 destroyed with /force the room that player2 owns, as in
\* test_destroy_override.
C23_Witness ==
    /\ last.op = "@destroy"
    /\ last.caller = "char1"
    /\ last.force
    /\ last.res = "destroyed"
    /\ last.obj = Room1
    /\ Room1 \notin objects

\* C27: a character whose account lacks the permission that the create lock
\* of the type asks for creates nothing with @create, @dig or @open: no
\* object is created, no tag is written and the character's last_created
\* reference is what it was (unset, if it was unset).
C27_NoCreatePermNoObject ==
    [][\A c \in Chars, k \in TypeKeys :
          (/\ IsCreation(last')
           /\ last'.caller = c
           /\ last'.ctype = k
           /\ ~check_lockstring(c, COLLAB_TYPES(k).create_lock))
          => /\ last'.res \in {"no_create_perm", "not_permitted"}
             /\ objects' = objects
             /\ tags' = tags
             /\ last_created' = last_created]_vars

\* char2, whose account has been reduced to "Player", was refused; nothing
\* exists beside the fixtures and char2 has no last created object.
C27_Witness ==
    /\ IsCreation(last)
    /\ last.caller = "char2"
    /\ last.res = "no_create_perm"
    /\ Permission("player2") = "Player"
    /\ objects = {Room1} \cup CharIds
    /\ last_created["char2"] = NoObj
    /\ \A o \in ObjIds : tags[o] = {}

C28_MalformedValueWritesNothing ==
    [][\A v \in AttrValues :
          (last'.op = "@set" /\ last'.value = v /\ ~literal_eval(v).ok)
          => /\ attrs' = attrs
             /\ last'.res \in {"syntax_error", "no_setattr_perm",
                                "no_attr_perm"}]_vars

\* A value that does not parse was refused for an attribute that holds a
\* value; the value is still there.
C28_Witness ==
    /\ last.op = "@set"
    /\ last.res = "syntax_error"
    /\ ~literal_eval(last.value).ok
    /\ attrs[last.obj][prefix_check(last.obj, last.name).handler]
            [prefix_check(last.obj, last.name).name] # NoValue

\* C31: a creation command whose type switch is no key of the type table
\* reports that the type is not recognized and creates nothing; no
\* exception is raised before that report.
C31_UnknownTypeReported ==
    [][(IsCreation(last') /\ last'.ctype \notin TypeKeys)
          => /\ last'.res = "not_recognized"
             /\ objects' = objects]_vars

\* C32: set, view and remove agree on where a prefixed attribute lives.
\* After a set_attr of a name the resolved handler holds the value under
\* the bare name, where check_has_attr and get_attr of the copy command
\* see it; view_attr of the name reports exactly what they see; after an
\* rm_attr that was let through the resolved handler no longer has the
\* bare name.
C32_SetViewRemoveAgree ==
    /\ (last.op = "@set" /\ last.res = "created") =>
           /\ check_has_attr(last.obj, last.name)
           /\ get_attr(last.obj, last.name) = literal_eval(last.value).val
    /\ (last.op = "@set/view" /\ last.res = "viewed") =>
           /\ last.view.found = check_has_attr(last.obj, last.name)
           /\ last.view.val = get_attr(last.obj, last.name)
    /\ (last.op = "@set/rm" /\ last.res \in {"deleted", "no_attribute"}) =>
           ~check_has_attr(last.obj, last.name)

\* C33: the examine/db listing shows no attribute of a handler for which
\* the caller fails attr_check 'read' on the object: nothing wizard-hidden
\* for a caller who is no immortal, nothing user-hidden for a caller who is
\* neither immortal nor owner; and the overview of a caller who fails the
\* 'examine' check shows only the display owner.
C33_ExamineHidesUnreadable ==
    /\ (last.op = "examine" /\ last.res = "listed") =>
           \A e \in last.listing :
               /\ attr_check(last.caller, last.obj, "read", e.handler)
               /\ ~IsImmortal(last.caller) => e.handler # "wizh"
               /\ (~IsImmortal(last.caller)
                      /\ ~controls(last.caller, last.obj))
                     => e.handler # "usrh"
    /\ (/\ last.op = "examine"
        /\ last.res = "overview"
        /\ ~collab_check(last.caller, last.obj, <<"examine">>)) =>
           /\ last.view.shown = {"display_owner"}
           /\ last.view.display_owner = get_owner(last.obj, FALSE)

\* char2, neither immortal nor owner of the room, listed its attributes:
\* the room holds a wizard-hidden, a user-hidden and a plain attribute and
\* only the plain one is listed.
C33_Witness ==
    /\ last.op = "examine"
    /\ last.res = "listed"
    /\ last.caller = "char2"
    /\ ~controls("char2", last.obj)
    /\ handler_all(last.obj, "wizh") # {}
    /\ handler_all(last.obj, "usrh") # {}
    /\ handler_all(last.obj, "usr") # {}
    /\ last.listing = handler_all(last.obj, "usr")

\* C34: @home changes the home of an object only when the caller passes
\* collab_check 'home' on the object and, when a new home is given,
\* 'home_to' on the new home; when a check fails, or an object is not
\* found, every home is what it was; and a @home without a home clears the
\* home exactly when the caller passes the 'home' check.
C34_HomeOnlyWithBothChecks ==
    [][\A c \in Chars, o \in ObjIds, h \in {NoObj} \cup ObjIds :
          (/\ last'.op = "@home"
           /\ last'.caller = c
           /\ last'.obj = o
           /\ last'.arg = h)
          => IF /\ o \in objects
                /\ collab_check(c, o, <<"home">>)
                /\ h # NoObj =>
                       h \in objects /\ collab_check(c, h, <<"home_to">>)
             THEN home' = [home EXCEPT ![o] = h]
             ELSE home' = home]_vars

\* char2 passes the 'home' lock of the exit but neither owns the character
\* it names as home nor passes its 'home_to' lock: the exit keeps its home.
C34_Witness ==
    /\ last.op = "@home"
    /\ last.caller = "char2"
    /\ last.res = "no_home_to_perm"
    /\ last.obj = ExitObj
    /\ last.arg = CharObj("char1")
    /\ ~controls("char2", ExitObj)
    /\ "home" \in locks[ExitObj]
    /\ home[ExitObj] = DefaultHome

RECURSIVE ToNum(_)
\* The number a string of decimal digits denotes; -1 for anything else.
ToNum(str) ==
    LET digit(ch) == IF \E i \in 1..10 : DigitChars[i] = ch
                     THEN (CHOOSE i \in 1..10 : DigitChars[i] = ch) - 1
                     ELSE -1
    IN  IF str = <<>> THEN -1
        ELSE IF Len(str) = 1 THEN digit(str[1])
        ELSE LET front == ToNum(SubSeq(str, 1, Len(str) - 1))
                 back == digit(str[Len(str)])
             IN  IF front < 0 \/ back < 0 THEN -1 ELSE front * 10 + back

\* 'HH:MM' for these hours and minutes.
IsClock(str, hours, minutes) ==
    /\ Len(str) = 5
    /\ str[3] = ":"
    /\ ToNum(SubSeq(str, 1, 2)) = hours
    /\ ToNum(SubSeq(str, 4, 5)) = minutes

\* The number followed by the one-letter unit, without leading zero.
IsAmount(str, n, unit) ==
    /\ Len(str) >= 2
    /\ str[Len(str)] = unit
    /\ ToNum(SubSeq(str, 1, Len(str) - 1)) = n
    /\ Len(str) > 2 => str[1] # "0"

\* C35: time_format counts a negative number of seconds as 0 and splits a
\* whole number of seconds s >= 0 into days, hours, minutes and seconds
\* with 0 <= hours < 24, 0 <= minutes < 60, 0 <= seconds < 60 and
\* days*86400 + hours*3600 + minutes*60 + seconds = s; style 0 gives
\* 'Dd HH:MM' when days > 0 and 'HH:MM' otherwise; style 1 gives only the
\* highest unit that is not zero (the seconds when all are zero).
C35_TimeFormatSplit ==
    last.op = "time_format" =>
        LET s == IF last.seconds < 0 THEN 0 ELSE last.seconds
            p == last.parts
            r == last.res
        IN  /\ p.days >= 0
            /\ p.hours \in 0..23
            /\ p.minutes \in 0..59
            /\ p.seconds \in 0..59
            /\ p.days * 86400 + p.hours * 3600 + p.minutes * 60 + p.seconds
                   = s
            /\ last.style = 0 =>
                   IF p.days > 0
                   THEN /\ Len(r) > 7
                        /\ IsAmount(SubSeq(r, 1, Len(r) - 6), p.days, "d")
                        /\ r[Len(r) - 5] = " "
                        /\ IsClock(SubSeq(r, Len(r) - 4, Len(r)),
                                   p.hours, p.minutes)
                   ELSE IsClock(r, p.hours, p.minutes)
            /\ last.style = 1 =>
                   IF p.days > 0 THEN IsAmount(r, p.days, "d")
                   ELSE IF p.hours > 0 THEN IsAmount(r, p.hours, "h")
                   ELSE IF p.minutes > 0 THEN IsAmount(r, p.minutes, "m")
                   ELSE IsAmount(r, p.seconds, "s")

\* 1 day, 9 hours, 1 minute and 59 seconds in style 0: '1d 09:01'.
C35_Witness ==
    /\ last.op = "time_format"
    /\ last.seconds = 86400 + 9 * 3600 + 60 + 59
    /\ last.style = 0
    /\ last.res = <<"1", "d", " ", "0", "9", ":", "0", "1">>

====
